---- MODULE Spec2Model ----
(***************************************************************************)
(* State-machine model of scripts/locustfile.py: the virtual users of the  *)
(* Task API load test (TaskAPIUser, AdminUser), their owned-ID lists, the  *)
(* create/update/delete tasks with their response handlers, the on_stop    *)
(* cleanup hook, and the __main__ configuration read from the environment. *)
(*                                                                         *)
(* Users are greenlets: a user's code runs atomically between two blocking *)
(* HTTP calls, so every action below is the code from one blocking point   *)
(* to the next (issuing a request / handling its response).                *)
(***************************************************************************)
EXTENDS Integers, Sequences, FiniteSets, TLC

\* ------------------------------------------------------------------ bounds

\* Longest owned-ID list the model lets a class grow to.
MaxListLen == 2
\* Most HTTP requests the tasks issue in one run.
MaxRequests == 4
\* Longest value of LOCUST_USERS / LOCUST_SPAWN_RATE drawn for __main__.
MaxStrLen == 2

\* ------------------------------------------------------------ the universe

TaskAPIUsers == {"t1", "t2"}
AdminUsers == {"a1"}
Users == TaskAPIUsers \cup AdminUsers

\* The class an instance belongs to.
ClassOf(u) == IF u \in TaskAPIUsers THEN "TaskAPIUser" ELSE "AdminUser"
Classes == {"TaskAPIUser", "AdminUser"}

\* Task ids the server may put in a 201 body.
TaskIds == {"x", "y"}
\* data.get("task", {}).get("id") of a body without a task id.
None == "None"
\* A body response.json() cannot decode.
BadBody == "BadBody"
\* What response.json()'s task id can be: an id, the empty string, missing.
BodyIds == TaskIds \cup {"", None}
Bodies == BodyIds \cup {BadBody}
\* The status codes the server answers with.
Statuses == {200, 201, 404, 500}

VARIABLES
    task_ids,    \* class -> the class attribute task_ids (a list)
    pc,          \* user -> where the user's greenlet is blocked
    task_id,     \* user -> the local variable task_id of the running task / hook
    it,          \* user -> index of on_stop's list iterator (next position, 1-based)
    requests,    \* number of self.client calls issued
    successes,   \* number of response.success() calls
    failures,    \* number of response.failure() calls
    last,        \* the last task outcome (what the handler did)
    returned,    \* task ids the server has sent in the body of a 201
    snapshot,    \* user -> task_ids as on_stop found it when it started
    attempted,   \* user -> ids on_stop has issued a delete call for
    env,         \* the process environment (LOCUST_* variables)
    config       \* the config dict of __main__

vars == <<task_ids, pc, task_id, it, requests, successes, failures, last,
          returned, snapshot, attempted, env, config>>
harness == <<task_ids, pc, task_id, it, requests, successes, failures, last,
             returned, snapshot, attempted>>

\* ----------------------------------------------------------- Python lists

Range(l) == {l[i] : i \in DOMAIN l}

Count(l, x) == Cardinality({i \in DOMAIN l : l[i] = x})

\* Index of the first occurrence of x in l (x occurs in l).
IndexOf(l, x) == CHOOSE i \in DOMAIN l : l[i] = x /\ \A j \in 1..(i - 1) : l[j] # x

ValueError == <<"ValueError">>

\* list.remove(x): drops the first occurrence of x; raises ValueError if absent.
list_remove(l, x) ==
    IF x \notin Range(l) THEN ValueError
    ELSE LET k == IndexOf(l, x)
         IN  [i \in 1..(Len(l) - 1) |-> IF i < k THEN l[i] ELSE l[i + 1]]

\* Faulty variant: the membership test before list.remove dropped.
prune_unchecked(l, x) == list_remove(l, x)

\* `if task_id in self.task_ids: self.task_ids.remove(task_id)`
prune(l, x) == IF x \in Range(l) THEN list_remove(l, x) ELSE l

IndexError == "IndexError"

\* random.choice(l): any element of l; raises IndexError on an empty list.
random_choice(l) == IF l = <<>> THEN {IndexError} ELSE Range(l)

\* Python truthiness of a task id: None and "" are falsy.
Truthy(v) == v # None /\ v # ""

\* self.task_ids: no instance ever assigns the attribute, so the lookup
\* finds the class attribute of the instance's class.
self_task_ids(u) == task_ids[ClassOf(u)]

\* ------------------------------------------------------------- bookkeeping

NoEvent == [user |-> "none", op |-> "none", id |-> None, status |-> 0,
            result |-> "none", pruned |-> FALSE]

Event(u, op, id, status, result, pruned) ==
    [user |-> u, op |-> op, id |-> id, status |-> status, result |-> result,
     pruned |-> pruned]

InFlight == {"post", "put", "delete"}

\* The runtime schedules another task invocation only within the run's budget.
CanIssue == requests < MaxRequests

\* Appends in flight or done never grow a class's list past MaxListLen.
Room(u) ==
    Len(self_task_ids(u))
      + Cardinality({v \in Users : ClassOf(v) = ClassOf(u) /\ pc[v] = "post"})
      < MaxListLen

\* ------------------------------------------------------------------- Init

UnsetVar == [set |-> FALSE, val |-> <<>>]
UnsetStr == [set |-> FALSE, val |-> ""]

\* The environment with no LOCUST_* variable set.
EmptyEnv ==
    [LOCUST_HOST |-> UnsetStr, LOCUST_USERS |-> UnsetVar,
     LOCUST_SPAWN_RATE |-> UnsetVar, LOCUST_RUN_TIME |-> UnsetStr,
     LOCUST_HEADLESS |-> UnsetVar]

NoConfig == [status |-> "unset"]

\* The classes as defined (task_ids = [] on each), every user spawned and
\* waiting for its first task.
HarnessInit ==
    /\ task_ids = [c \in Classes |-> <<>>]
    /\ pc = [u \in Users |-> "wait"]
    /\ task_id = [u \in Users |-> None]
    /\ it = [u \in Users |-> 0]
    /\ requests = 0
    /\ successes = 0
    /\ failures = 0
    /\ last = NoEvent
    /\ returned = {}
    /\ snapshot = [u \in Users |-> <<>>]
    /\ attempted = [u \in Users |-> {}]

\* Under the locust runtime the module is imported, so __main__ does not run.
Init ==
    /\ HarnessInit
    /\ env = EmptyEnv
    /\ config = NoConfig

\* ------------------------------------------------------------ create_task

\* Faulty variant: the `if task_id:` test dropped.
append_always(l, id) == Append(l, id)

\* `if task_id: self.task_ids.append(task_id)`
append_id(l, id) == IF Truthy(id) THEN Append(l, id) ELSE l

\* Faulty variant: 200 accepted as a successful create too.
create_result_2xx(status) == IF status = 200 \/ status = 201 THEN "success" ELSE "failure"

\* create_task: 201 is success, any other status is failure.
create_result(status) == IF status = 201 THEN "success" ELSE "failure"

\* The bodies a response of this status is read for: only a 201's body is read.
BodiesOf(status) == IF status = 201 THEN Bodies ELSE {None}

\* create_task up to its blocking self.client.post.
create_task(u) ==
    /\ u \in TaskAPIUsers
    /\ pc[u] = "wait"
    /\ CanIssue
    /\ Room(u)
    /\ pc' = [pc EXCEPT ![u] = "post"]
    /\ requests' = requests + 1
    /\ UNCHANGED <<task_ids, task_id, it, successes, failures, last, returned,
                   snapshot, attempted, env, config>>

\* create_task from the response on: the body of the `with` block.
create_task_response(u) ==
    /\ u \in TaskAPIUsers
    /\ pc[u] = "post"
    /\ \E status \in Statuses : \E body \in BodiesOf(status) :
         /\ pc' = [pc EXCEPT ![u] = "wait"]
         /\ IF create_result(status) = "success"
            THEN IF body = BadBody
                 THEN \* response.json() raises: neither success() nor failure()
                      /\ last' = Event(u, "create_task", None, status, "JSONDecodeError", FALSE)
                      /\ UNCHANGED <<task_ids, successes, failures, returned>>
                 ELSE /\ task_ids' = [task_ids EXCEPT ![ClassOf(u)] = append_id(@, body)]
                      /\ successes' = successes + 1
                      /\ returned' = returned \cup ({body} \cap TaskIds)
                      /\ last' = Event(u, "create_task", body, status, "success", FALSE)
                      /\ UNCHANGED failures
            ELSE /\ failures' = failures + 1
                 /\ last' = Event(u, "create_task", None, status, "failure", FALSE)
                 /\ UNCHANGED <<task_ids, successes, returned>>
    /\ UNCHANGED <<task_id, it, requests, snapshot, attempted, env, config>>

\* ------------------------------------------------------------ update_task

\* update_task: 200 and 404 are success, any other status is failure.
update_result(status) == IF status = 200 \/ status = 404 THEN "success" ELSE "failure"

\* Faulty variant: the 404 branch of update_task without its prune.
update_prunes_never(status) == FALSE

\* update_task prunes the id on 404 only.
update_prunes(status) == status = 404

\* Faulty variant: the early return dropped.
no_owned_ids_never(u) == FALSE

\* `if not self.task_ids: return`
no_owned_ids(u) == self_task_ids(u) = <<>>

\* update_task up to its blocking self.client.put, or its early return.
update_task(u) ==
    /\ u \in TaskAPIUsers
    /\ pc[u] = "wait"
    /\ CanIssue
    /\ IF no_owned_ids(u)
       THEN /\ last' = Event(u, "update_task", None, 0, "noop", FALSE)
            /\ UNCHANGED <<pc, task_id, requests>>
       ELSE \E c \in random_choice(self_task_ids(u)) :
              IF c = IndexError
              THEN \* the task ends with the exception, before any request
                   /\ last' = Event(u, "update_task", None, 0, "IndexError", FALSE)
                   /\ UNCHANGED <<pc, task_id, requests>>
              ELSE /\ task_id' = [task_id EXCEPT ![u] = c]
                   /\ pc' = [pc EXCEPT ![u] = "put"]
                   /\ requests' = requests + 1
                   /\ UNCHANGED last
    /\ UNCHANGED <<task_ids, it, successes, failures, returned, snapshot,
                   attempted, env, config>>

\* The handler of a response to an update or a delete of task_id[u]:
\* classify, prune when the status asks for it, record.
handle(u, op, status, result, prunes) ==
    LET l == self_task_ids(u)
        r == IF prunes THEN prune(l, task_id[u]) ELSE l
    IN  /\ pc' = [pc EXCEPT ![u] = "wait"]
        /\ task_id' = [task_id EXCEPT ![u] = None]
        /\ IF result = "failure"
           THEN /\ failures' = failures + 1
                /\ last' = Event(u, op, task_id[u], status, "failure", FALSE)
                /\ UNCHANGED <<task_ids, successes>>
           ELSE IF r = ValueError
           THEN \* list.remove raised: the task ends without success()
                /\ last' = Event(u, op, task_id[u], status, "ValueError", FALSE)
                /\ UNCHANGED <<task_ids, successes, failures>>
           ELSE /\ task_ids' = [task_ids EXCEPT ![ClassOf(u)] = r]
                /\ successes' = successes + 1
                /\ last' = Event(u, op, task_id[u], status, "success", r # l)
                /\ UNCHANGED failures

\* update_task from the response on.
update_task_response(u) ==
    /\ u \in TaskAPIUsers
    /\ pc[u] = "put"
    /\ \E status \in Statuses :
         handle(u, "update_task", status, update_result(status), update_prunes(status))
    /\ UNCHANGED <<it, requests, returned, snapshot, attempted, env, config>>

\* ------------------------------------------------------------ delete_task

\* delete_task: 200 and 404 are success, any other status is failure.
delete_result(status) == IF status = 200 \/ status = 404 THEN "success" ELSE "failure"

\* delete_task prunes the id on 200 and on 404.
delete_prunes(status) == status = 200 \/ status = 404

\* delete_task up to its blocking self.client.delete, or its early return.
delete_task(u) ==
    /\ u \in TaskAPIUsers
    /\ pc[u] = "wait"
    /\ CanIssue
    /\ IF no_owned_ids(u)
       THEN /\ last' = Event(u, "delete_task", None, 0, "noop", FALSE)
            /\ UNCHANGED <<pc, task_id, requests>>
       ELSE \E c \in random_choice(self_task_ids(u)) :
              IF c = IndexError
              THEN \* the task ends with the exception, before any request
                   /\ last' = Event(u, "delete_task", None, 0, "IndexError", FALSE)
                   /\ UNCHANGED <<pc, task_id, requests>>
              ELSE /\ task_id' = [task_id EXCEPT ![u] = c]
                   /\ pc' = [pc EXCEPT ![u] = "delete"]
                   /\ requests' = requests + 1
                   /\ UNCHANGED last
    /\ UNCHANGED <<task_ids, it, successes, failures, returned, snapshot,
                   attempted, env, config>>

\* delete_task from the response on.
delete_task_response(u) ==
    /\ u \in TaskAPIUsers
    /\ pc[u] = "delete"
    /\ \E status \in Statuses :
         handle(u, "delete_task", status, delete_result(status), delete_prunes(status))
    /\ UNCHANGED <<it, requests, returned, snapshot, attempted, env, config>>

\* ---------------------------------------------------------------- on_stop

\* One turn of `for task_id in self.task_ids:` with the list iterator at
\* position i: the iterator reads the list as it is now. Either the next
\* element is taken and its delete call issued, or the loop is over.
on_stop_iterate(u, i) ==
    LET l == self_task_ids(u)
    IN  IF i <= Len(l)
        THEN /\ task_id' = [task_id EXCEPT ![u] = l[i]]
             /\ it' = [it EXCEPT ![u] = i + 1]
             /\ pc' = [pc EXCEPT ![u] = "cleanup"]
             /\ requests' = requests + 1
             /\ attempted' = [attempted EXCEPT ![u] = @ \cup {l[i]}]
        ELSE /\ task_id' = [task_id EXCEPT ![u] = None]
             /\ it' = [it EXCEPT ![u] = i]
             /\ pc' = [pc EXCEPT ![u] = "stopped"]
             /\ UNCHANGED <<requests, attempted>>

\* The runtime stops the user (while it waits, or killing its request in
\* flight): on_stop starts and runs to its first blocking delete call.
on_stop(u) ==
    /\ u \in TaskAPIUsers
    /\ pc[u] \in {"wait"} \cup InFlight
    /\ snapshot' = [snapshot EXCEPT ![u] = self_task_ids(u)]
    /\ on_stop_iterate(u, 1)
    /\ UNCHANGED <<task_ids, successes, failures, last, returned, env, config>>

\* on_stop's delete call returns or raises; `except Exception` catches what
\* it raises, and the loop goes on to its next turn.
on_stop_continue(u) ==
    /\ u \in TaskAPIUsers
    /\ pc[u] = "cleanup"
    /\ \E outcome \in {"returned", "raised"} :
         on_stop_iterate(u, it[u])
    /\ UNCHANGED <<task_ids, successes, failures, last, returned, snapshot,
                   env, config>>

\* -------------------------------------------------------------- AdminUser

\* admin_create_task up to its blocking self.client.post.
admin_create_task(u) ==
    /\ u \in AdminUsers
    /\ pc[u] = "wait"
    /\ CanIssue
    /\ Room(u)
    /\ pc' = [pc EXCEPT ![u] = "post"]
    /\ requests' = requests + 1
    /\ UNCHANGED <<task_ids, task_id, it, successes, failures, last, returned,
                   snapshot, attempted, env, config>>

\* admin_create_task from the response on (no catch_response: the task
\* itself marks neither success nor failure).
admin_create_task_response(u) ==
    /\ u \in AdminUsers
    /\ pc[u] = "post"
    /\ \E status \in Statuses : \E body \in BodiesOf(status) :
         /\ pc' = [pc EXCEPT ![u] = "wait"]
         /\ IF status = 201
            THEN IF body = BadBody
                 THEN /\ last' = Event(u, "admin_create_task", None, status, "JSONDecodeError", FALSE)
                      /\ UNCHANGED <<task_ids, returned>>
                 ELSE /\ task_ids' = [task_ids EXCEPT ![ClassOf(u)] = append_id(@, body)]
                      /\ returned' = returned \cup ({body} \cap TaskIds)
                      /\ last' = Event(u, "admin_create_task", body, status, "none", FALSE)
            ELSE /\ last' = Event(u, "admin_create_task", None, status, "none", FALSE)
                 /\ UNCHANGED <<task_ids, returned>>
    /\ UNCHANGED <<task_id, it, requests, successes, failures, snapshot,
                   attempted, env, config>>

\* ------------------------------------------------------------------- Next

\* Every step a user u can take.
StepOf(u) ==
    \/ create_task(u)
    \/ create_task_response(u)
    \/ update_task(u)
    \/ update_task_response(u)
    \/ delete_task(u)
    \/ delete_task_response(u)
    \/ on_stop(u)
    \/ on_stop_continue(u)
    \/ admin_create_task(u)
    \/ admin_create_task_response(u)

Next == \E u \in Users : StepOf(u)

Spec == Init /\ [][Next]_vars

\* --------------------------------------------------------------- __main__

\* Strings that int() or lower() read are sequences of characters.
DigitVal == [c \in {"0", "1", "2", "3", "4", "5", "6", "7", "8", "9"} |->
               CASE c = "0" -> 0 [] c = "1" -> 1 [] c = "2" -> 2 [] c = "3" -> 3
                 [] c = "4" -> 4 [] c = "5" -> 5 [] c = "6" -> 6 [] c = "7" -> 7
                 [] c = "8" -> 8 [] c = "9" -> 9]

UpperToLower == [c \in {"T", "R", "U", "E", "F", "A", "L", "S", "Y"} |->
                   CASE c = "T" -> "t" [] c = "R" -> "r" [] c = "U" -> "u"
                     [] c = "E" -> "e" [] c = "F" -> "f" [] c = "A" -> "a"
                     [] c = "L" -> "l" [] c = "S" -> "s" [] c = "Y" -> "y"]

\* Faulty variant: the value compared without lower().
lower_identity(s) == s

\* str.lower(): every cased character to its lower case, the others kept.
lower(s) == [i \in DOMAIN s |-> IF s[i] \in DOMAIN UpperToLower THEN UpperToLower[s[i]] ELSE s[i]]

\* int(s): an optional sign, then decimal digits read left to right. A
\* string with no digit, or holding any other character, raises ValueError
\* (the whitespace and underscores int() also accepts are not drawn here).
RECURSIVE int_digits(_, _)
int_digits(s, acc) ==
    IF s = <<>> THEN acc
    ELSE int_digits(Tail(s), acc * 10 + DigitVal[Head(s)])

Signs == {"+", "-"}

unsigned(s) == IF s # <<>> /\ Head(s) \in Signs THEN Tail(s) ELSE s

int_raises(s) ==
    unsigned(s) = <<>> \/ \E i \in DOMAIN unsigned(s) : unsigned(s)[i] \notin DOMAIN DigitVal

int(s) ==
    IF s # <<>> /\ Head(s) = "-"
    THEN 0 - int_digits(unsigned(s), 0)
    ELSE int_digits(unsigned(s), 0)

\* os.getenv(name, default)
getenv(name, default) == IF env[name].set THEN env[name].val ELSE default

\* The config dict of __main__; int() raising ends the process with no config.
main_config ==
    LET users == getenv("LOCUST_USERS", <<"1", "0">>)
        spawn_rate == getenv("LOCUST_SPAWN_RATE", <<"2">>)
    IN  IF int_raises(users) \/ int_raises(spawn_rate)
        THEN [status |-> "ValueError"]
        ELSE [status |-> "resolved",
              host |-> getenv("LOCUST_HOST", "http://localhost:3000"),
              users |-> int(users),
              spawn_rate |-> int(spawn_rate),
              run_time |-> getenv("LOCUST_RUN_TIME", "5m"),
              headless |-> lower(getenv("LOCUST_HEADLESS", <<"f", "a", "l", "s", "e">>))
                             = <<"t", "r", "u", "e">>]

\* The script run as a program: the configuration is read once.
main ==
    /\ config = NoConfig
    /\ config' = main_config
    /\ UNCHANGED <<harness, env>>

\* Values drawn for the variables int() reads.
IntChars == {"0", "3", "-", "x"}
RECURSIVE StringsUpTo(_)
StringsUpTo(n) ==
    IF n = 0 THEN {<<>>}
    ELSE LET shorter == StringsUpTo(n - 1)
         IN  shorter \cup {Append(s, c) : s \in {t \in shorter : Len(t) = n - 1}, c \in IntChars}

IntVarValues == {UnsetVar} \cup {[set |-> TRUE, val |-> s] : s \in StringsUpTo(MaxStrLen)}

\* Values drawn for LOCUST_HEADLESS.
HeadlessStrings ==
    {<<"t", "r", "u", "e">>, <<"T", "r", "u", "e">>, <<"T", "R", "U", "E">>,
     <<"t", "R", "u", "E">>, <<"f", "a", "l", "s", "e">>, <<"F", "A", "L", "S", "E">>,
     <<>>, <<"1">>, <<"y", "e", "s">>, <<"t", "r", "u", "e", "e">>,
     <<" ", "t", "r", "u", "e">>, <<"T", "R", "U">>}

HeadlessValues == {UnsetVar} \cup {[set |-> TRUE, val |-> s] : s \in HeadlessStrings}

HostValues == {UnsetStr} \cup {[set |-> TRUE, val |-> s] : s \in {"", "https://api.example.com"}}
RunTimeValues == {UnsetStr} \cup {[set |-> TRUE, val |-> s] : s \in {"", "30s"}}

\* The script started as a program under any environment.
ConfigInit ==
    /\ HarnessInit
    /\ env \in [LOCUST_HOST : HostValues, LOCUST_USERS : IntVarValues,
                LOCUST_SPAWN_RATE : IntVarValues, LOCUST_RUN_TIME : RunTimeValues,
                LOCUST_HEADLESS : HeadlessValues]
    /\ config = NoConfig

ConfigNext == main

SpecConfig == ConfigInit /\ [][ConfigNext]_vars

\* ----------------------------------------------------------------- claims

\* The step in which user u's task handles the response to its request.
CreateHandled(u) == pc[u] = "post" /\ pc'[u] = "wait"
UpdateHandled(u) == pc[u] = "put" /\ pc'[u] = "wait"
DeleteHandled(u) == pc[u] = "delete" /\ pc'[u] = "wait"

\* l2 is l without its first occurrence of x.
RemovedFirst(l, l2, x) ==
    \E k \in DOMAIN l :
      /\ l[k] = x
      /\ \A j \in 1..(k - 1) : l[j] # x
      /\ l2 = SubSeq(l, 1, k - 1) \o SubSeq(l, k + 1, Len(l))

\* C1: after a create_task of user U got a 201 with an id, that id is in
\* U's owned-ID list exactly once and in no other user's owned-ID list.
C1_CreatedIdOwnedByOneUser ==
    (last.op = "create_task" /\ last.result = "success" /\ Truthy(last.id))
      => /\ Count(self_task_ids(last.user), last.id) = 1
         /\ \A v \in Users \ {last.user} : last.id \notin Range(self_task_ids(v))

\* C2: no step of a user A changes the owned-ID list of another user B.
C2_NoSharedState ==
    [][\A a \in Users : StepOf(a) =>
         \A b \in Users \ {a} : self_task_ids(b)' = self_task_ids(b)]_vars

\* C3: after delete_task handled a 200 or a 404 for id x, x occurs nowhere
\* in the invoking user's owned-ID list.
C3_DeletedIdAbsent ==
    (last.op = "delete_task" /\ last.result = "success")
      => last.id \notin Range(self_task_ids(last.user))

\* C4: when on_stop has finished, it has issued a delete call for every id
\* that was in the user's owned-ID list when the hook started.
C4_CleanupAttemptsEveryId ==
    \A u \in TaskAPIUsers :
      pc[u] = "stopped" => Range(snapshot[u]) \subseteq attempted[u]

\* C5: update_task and delete_task invoked with an empty owned-ID list
\* return at once: no request, no success, no failure, no state changed.
C5_NoOpOnEmptyList ==
    [][\A u \in TaskAPIUsers :
         ((update_task(u) \/ delete_task(u)) /\ self_task_ids(u) = <<>>) =>
           /\ last'.result = "noop"
           /\ UNCHANGED <<task_ids, pc, task_id, it, requests, successes,
                          failures, returned, snapshot, attempted, env, config>>]_vars

\* A task returned at once on an empty list, and nothing has been requested.
C5_Witness ==
    /\ last.result = "noop"
    /\ last.op \in {"update_task", "delete_task"}
    /\ self_task_ids(last.user) = <<>>
    /\ pc[last.user] = "wait"

\* C6: update_task on an owned id x: 200 is a success and leaves the list
\* unchanged; 404 is a success, not a failure, and removes x from the list;
\* any other status is a failure.
C6_UpdateClassifies ==
    [][\A u \in TaskAPIUsers :
         UpdateHandled(u) =>
           LET x == task_id[u]
               l == self_task_ids(u)
               l2 == self_task_ids(u)'
               status == last'.status
           IN  /\ status = 200 =>
                    /\ successes' = successes + 1
                    /\ failures' = failures
                    /\ l2 = l
               /\ status = 404 =>
                    /\ successes' = successes + 1
                    /\ failures' = failures
                    /\ x \in Range(l) => RemovedFirst(l, l2, x)
                    /\ x \notin Range(l) => l2 = l
                    /\ Count(l, x) <= 1 => x \notin Range(l2)
               /\ status \notin {200, 404} =>
                    /\ failures' = failures + 1
                    /\ successes' = successes]_vars

\* An update got a 404: the id was pruned, it is gone, no failure so far.
C6_Witness ==
    /\ last.op = "update_task"
    /\ last.status = 404
    /\ last.result = "success"
    /\ last.pruned
    /\ last.id \notin Range(self_task_ids(last.user))
    /\ failures = 0

\* A decimal string's value, digit by digit from its positions.
RECURSIVE Pow10(_)
Pow10(n) == IF n = 0 THEN 1 ELSE 10 * Pow10(n - 1)
RECURSIVE SumTo(_, _)
SumTo(s, n) == IF n = 0 THEN 0 ELSE SumTo(s, n - 1) + DigitVal[s[n]] * Pow10(Len(s) - n)
\* s is an integer literal: digits, after at most one sign.
IsDecimal(s) ==
    /\ s # <<>>
    /\ \A i \in DOMAIN s : s[i] \in DOMAIN DigitVal \/ (i = 1 /\ s[i] \in {"+", "-"})
    /\ \E i \in DOMAIN s : s[i] \in DOMAIN DigitVal
DecimalValue(s) ==
    IF s[1] = "-" THEN 0 - SumTo(Tail(s), Len(s) - 1)
    ELSE IF s[1] = "+" THEN SumTo(Tail(s), Len(s) - 1)
    ELSE SumTo(s, Len(s))

\* s is "true" in some mix of cases.
SpellsTrue(s) ==
    /\ Len(s) = 4
    /\ s[1] \in {"t", "T"}
    /\ s[2] \in {"r", "R"}
    /\ s[3] \in {"u", "U"}
    /\ s[4] \in {"e", "E"}

\* C7: with no LOCUST_* variable set the configuration is the defaults
\* (http://localhost:3000, 10, 2, "5m", not headless); a set variable gives
\* its field the variable's value, users and spawn_rate as integers, and
\* headless is true exactly when LOCUST_HEADLESS lower-cased is "true".
C7_ConfigResolves ==
    (config # NoConfig) =>
      /\ env = EmptyEnv =>
           config = [status |-> "resolved", host |-> "http://localhost:3000",
                     users |-> 10, spawn_rate |-> 2, run_time |-> "5m",
                     headless |-> FALSE]
      /\ ( /\ env.LOCUST_USERS.set => IsDecimal(env.LOCUST_USERS.val)
           /\ env.LOCUST_SPAWN_RATE.set => IsDecimal(env.LOCUST_SPAWN_RATE.val) )
           => /\ config.status = "resolved"
              /\ config.headless
                   <=> (env.LOCUST_HEADLESS.set /\ SpellsTrue(env.LOCUST_HEADLESS.val))
              /\ env.LOCUST_HOST.set => config.host = env.LOCUST_HOST.val
              /\ env.LOCUST_RUN_TIME.set => config.run_time = env.LOCUST_RUN_TIME.val
              /\ env.LOCUST_USERS.set
                   => config.users = DecimalValue(env.LOCUST_USERS.val)
              /\ env.LOCUST_SPAWN_RATE.set
                   => config.spawn_rate = DecimalValue(env.LOCUST_SPAWN_RATE.val)

\* A configuration resolved from set variables, headless from "True".
C7_Witness ==
    /\ config # NoConfig
    /\ config.status = "resolved"
    /\ env.LOCUST_HEADLESS = [set |-> TRUE, val |-> <<"T", "r", "u", "e">>]
    /\ config.headless
    /\ env.LOCUST_USERS = [set |-> TRUE, val |-> <<"3", "0">>]
    /\ config.users = 30
    /\ env.LOCUST_SPAWN_RATE = [set |-> TRUE, val |-> <<"0", "3">>]
    /\ config.spawn_rate = 3
    /\ env.LOCUST_HOST.set

\* C8: a response a TaskAPIUser task classifies as failure (create_task: not
\* 201; update_task, delete_task: neither 200 nor 404) records exactly one
\* failure, leaves the owned-ID lists unchanged and issues no further request.
C8_FailureOnlyRecorded ==
    [][\A u \in TaskAPIUsers :
         ( \/ CreateHandled(u) /\ last'.status # 201
           \/ (UpdateHandled(u) \/ DeleteHandled(u)) /\ last'.status \notin {200, 404} )
         => /\ failures' = failures + 1
            /\ successes' = successes
            /\ task_ids' = task_ids
            /\ requests' = requests
            /\ last'.result = "failure"]_vars

\* A failure has been recorded for an update or delete whose id is still owned.
C8_Witness ==
    /\ last.result = "failure"
    /\ last.op \in {"update_task", "delete_task"}
    /\ last.id \in Range(self_task_ids(last.user))
    /\ failures >= 1
    /\ pc[last.user] = "wait"

\* C9: an update or delete handler that gets a 200 or a 404 never tries to
\* remove an absent id: when another user's handler has already removed it,
\* the list is left as it is, no error is raised and the request is a success.
C9_PruneNeverFails ==
    [][\A u \in TaskAPIUsers :
         ((UpdateHandled(u) \/ DeleteHandled(u)) /\ last'.status \in {200, 404})
         => /\ last'.result = "success"
            /\ successes' = successes + 1
            /\ failures' = failures
            /\ task_id[u] \notin Range(self_task_ids(u))
                 => self_task_ids(u)' = self_task_ids(u)]_vars

\* A 404 came back for an id that another user's handler had removed
\* meanwhile: nothing was pruned and the request is a success.
C9_Witness ==
    /\ last.op \in {"update_task", "delete_task"}
    /\ last.status = 404
    /\ last.result = "success"
    /\ ~last.pruned
    /\ successes >= 2

\* Every owned id, and every id a request in flight targets, is a non-empty
\* id that the server returned in the body of a 201.
OwnedIdsWereReturned ==
    /\ \A c \in Classes : \A i \in DOMAIN task_ids[c] :
         Truthy(task_ids[c][i]) /\ task_ids[c][i] \in returned
    /\ \A u \in TaskAPIUsers :
         pc[u] \in {"put", "delete", "cleanup"}
           => Truthy(task_id[u]) /\ task_id[u] \in returned

\* C10: the owned-ID list holds only non-empty ids returned in the body of a
\* 201 to an earlier create, so every update, delete and cleanup request
\* targets such an id; a 201 whose body has no task id (missing or empty) is
\* recorded as success and appends nothing.
C10_OnlyReturnedIdsOwned ==
    /\ []OwnedIdsWereReturned
    /\ [][\A u \in TaskAPIUsers :
            (CreateHandled(u) /\ last'.status = 201 /\ last'.result # "JSONDecodeError"
               /\ ~Truthy(last'.id))
            => /\ task_ids' = task_ids
               /\ successes' = successes + 1
               /\ failures' = failures]_vars

\* A 201 without a task id was recorded as success while an owned id is the
\* target of a request in flight.
C10_Witness ==
    /\ last.op = "create_task"
    /\ last.status = 201
    /\ last.id = ""
    /\ last.result = "success"
    /\ \E u \in TaskAPIUsers : pc[u] \in {"put", "delete", "cleanup"}

====
